---- MODULE Spec2Model ----
(***************************************************************************)
(* GoogleSheetsManager (src/SheetManager.py): a client holding one         *)
(* selected worksheet of a remote workbook, with cell, range and           *)
(* "database" helpers (header row, row append with a row-count ID).         *)
(*                                                                         *)
(* The remote worksheet is a grid of cells.  A cell holds a string; the    *)
(* empty string is the empty cell.  The grid is kept the way the service   *)
(* returns it: every row without its trailing empty cells, the sheet       *)
(* without its trailing empty rows.  Cell values are taken from strings    *)
(* the service stores and returns as they are (no numeric or formula       *)
(* parsing); the one conversion modelled is the integer ID, which is       *)
(* sent as a number and held by the sheet as its decimal string (IdStr).   *)
(*                                                                         *)
(* Every remote call is one blocking round trip.  A handler that makes     *)
(* several is a sequence of steps, one per remote call; between two of     *)
(* them other users of the sheet may write to it, and any remote call may  *)
(* fail in transport (APIError), which ends the handler where it stands.   *)
(***************************************************************************)
EXTENDS Integers, Sequences, FiniteSets, TLC

\* ---------------------------------------------------------------- bounds
HdrRows == 2
HdrCols == 3
IdRows == 3
IdCols == 2
MoveRows == 2
MoveCols == 2
MaxNames == 2
RaceRows == 5
MaxSheets == 3
MaxOther == 1

\* Python's None (an unset field, a missing argument, what the library may give
\* for an empty cell).
None == "<None>"

HeaderNames == {"", "ID", "a", "b"}
CellValues == {"", "x"}
\* "007" is a text the service reads as the number 7 when it is typed in.
MoveValues == {"x", "007"}
\* What worksheet.acell(cell).value is for an empty cell: None or the empty
\* string, by the version of the library.
EmptyReads == {None, ""}
SheetNames == {"S1", "S2", "S3"}

OK == "ok"
\* A call that has not returned yet.
Running == "running"
NoWorksheet == "ValueError: No worksheet set"
NoSheetName == "ValueError: No sheet name set"
HeaderExists == "ValueError: Header already exists"
ValueCount == "ValueError: Expected n values"
SheetNotFound == "ValueError: Sheet not found"
\* A remote call that failed in transport: gspread's APIError, which no handler
\* catches.
ApiError == "APIError"
\* What __init__ raises in place of an APIError whose text holds "disabled"
\* (lines 32-34), for a credentials file that is missing (lines 30-31) and for
\* a spreadsheet ID that names no spreadsheet (lines 36-37).
ApiDisabled == "PermissionError: Google Sheets API is disabled. Please enable it in Google Cloud Console."
CredentialsNotFound == "FileNotFoundError: Credentials file not found"
SpreadsheetNotFound == "ValueError: Spreadsheet not found"

Max(a, b) == IF a >= b THEN a ELSE b

\* Sequences over S of length lo..hi.
SeqsOf(S, lo, hi) == UNION {[1..n -> S] : n \in lo..hi}

\* Python's `x in xs`.
In(x, xs) == \E i \in 1..Len(xs) : xs[i] = x

Digit(d) == CASE d = 0 -> "0" [] d = 1 -> "1" [] d = 2 -> "2" [] d = 3 -> "3"
              [] d = 4 -> "4" [] d = 5 -> "5" [] d = 6 -> "6" [] d = 7 -> "7"
              [] d = 8 -> "8" [] d = 9 -> "9"

\* The decimal string the service returns for the integer n it was sent.
RECURSIVE IdStr(_)
IdStr(n) ==
  IF n < 0 THEN "-" \o IdStr(0 - n)
  ELSE IF n < 10 THEN Digit(n)
  ELSE IdStr(n \div 10) \o Digit(n % 10)

\* ------------------------------------------------ the remote worksheet grid
RECURSIVE TrimRow(_)
TrimRow(row) ==
  IF Len(row) = 0 THEN <<>>
  ELSE IF row[Len(row)] = "" THEN TrimRow(SubSeq(row, 1, Len(row) - 1))
  ELSE row

RECURSIVE TrimRows(_)
TrimRows(g) ==
  IF Len(g) = 0 THEN <<>>
  ELSE IF Len(g[Len(g)]) = 0 THEN TrimRows(SubSeq(g, 1, Len(g) - 1))
  ELSE g

Normalize(g) == TrimRows([i \in 1..Len(g) |-> TrimRow(g[i])])

CellAt(g, r, c) == IF r <= Len(g) /\ c <= Len(g[r]) THEN g[r][c] ELSE ""

RowAt(g, r) == IF r <= Len(g) THEN g[r] ELSE <<>>

Pad(row, n) == [j \in 1..n |-> IF j <= Len(row) THEN row[j] ELSE ""]

Width(g) == IF Len(g) = 0 THEN 0
            ELSE CHOOSE w \in {Len(g[i]) : i \in 1..Len(g)} :
                   \A i \in 1..Len(g) : Len(g[i]) <= w

\* A write of the values `vals` into row r from column c on; a None value is
\* skipped by the service (the cell keeps what it holds).
WriteRow(g, r, c, vals) ==
  LET old == RowAt(g, r)
      w == Max(Len(old), c + Len(vals) - 1)
      new == [j \in 1..w |->
                IF j >= c /\ j < c + Len(vals) /\ vals[j - c + 1] # None
                THEN vals[j - c + 1]
                ELSE IF j <= Len(old) THEN old[j] ELSE ""]
  IN Normalize([i \in 1..Max(Len(g), r) |-> IF i = r THEN new ELSE RowAt(g, i)])

\* worksheet.update(range, values): the rows of `values` written from the
\* range's top-left cell on.
RECURSIVE WriteBlock(_, _, _, _)
WriteBlock(g, r, c, rows) ==
  IF Len(rows) = 0 THEN g
  ELSE WriteBlock(WriteRow(g, r, c, rows[1]), r + 1, c, Tail(rows))

update(g, rng, values) == WriteBlock(g, rng.r1, rng.c1, values)

\* worksheet.acell(cell).value: the cell's text as the sheet shows it; for an
\* empty cell `blank`, the library's value for "nothing there".
acell_value(g, cell, blank) ==
  IF CellAt(g, cell.r, cell.c) = "" THEN blank ELSE CellAt(g, cell.r, cell.c)

\* The number the service reads in a text that is typed into a cell, -1 for a
\* text it keeps as text (of the texts in play, "7" and "007" are numbers).
typed_number(s) ==
  CASE s = "7" -> 7
    [] s = "007" -> 7
    [] OTHER -> 0 - 1

\* The USER_ENTERED input option: the value is taken as if a user had typed
\* it, so a text that reads as a number is stored as that number and shown in
\* its plain decimal form.
user_entered(value) ==
  IF value = None THEN None
  ELSE IF typed_number(value) >= 0 THEN IdStr(typed_number(value))
  ELSE value

\* worksheet.update_acell(cell, value): the value written with the
\* USER_ENTERED input option (worksheet.update and append_row write RAW).
update_acell(g, cell, value) == WriteRow(g, cell.r, cell.c, <<user_entered(value)>>)

\* worksheet.batch_clear([range]).
batch_clear(g, rng) ==
  Normalize([i \in 1..Len(g) |->
    [j \in 1..Len(g[i]) |->
       IF i >= rng.r1 /\ i <= rng.r2 /\ j >= rng.c1 /\ j <= rng.c2
       THEN "" ELSE g[i][j]]])

\* worksheet.row_values(row): the row without its trailing empty cells.
row_values(g, r) == RowAt(g, r)

\* worksheet.get_all_values(): the rows up to the last non-empty one, each
\* filled with empty strings to the width of the longest.
ws_get_all_values(g) == [i \in 1..Len(g) |-> Pad(g[i], Width(g))]

\* worksheet.append_row(values): the row written below the last non-empty row,
\* from column A on.
append_row(g, values) == WriteRow(g, Len(g) + 1, 1, values)

\* worksheet.clear().
ws_clear(g) == <<>>

A1 == [r1 |-> 1, c1 |-> 1, r2 |-> 1, c2 |-> 1]

\* No cell address (a call without one).
NoCell == [r |-> 0, c |-> 0]

\* ------------------------------------------------------------ client state
VARIABLES
  sheets,      \* the workbook's worksheet titles, in listing order (remote)
  sheet_name,  \* self.sheet_name
  worksheet,   \* self._worksheet: the title of the worksheet the handle is of
  inCtor,      \* set_sheet was called by __init__
  setArg,      \* set_sheet's argument while the call is in progress
  cells,       \* the grid of the selected worksheet (remote)
  pc,          \* the client's position: "idle" between calls, else the remote
               \* call it is about to make ("init", "failed": in and out of __init__)
  op,          \* the call in progress, or the last call made
  result,      \* Running, or how the last call ended: OK or the error raised
  cell,        \* argument: the cell of a cell call (the source of move/copy)
  target,      \* argument: the target cell of move_to / copy_to
  arg,         \* argument: the list passed (header names or values), as passed
  given,       \* argument: db_create's headers is not None
  value,       \* local: what get_cell returned
  todo,        \* local: the header names still to be added, the current one first
  headers,     \* local of db_add_header: the header row read, the name appended
  vals,        \* the values list of the caller of db_add_value (the ID is
               \* inserted into it); empty in every other call
  pre,         \* the grid when the call began, while no one else has written
               \* to the sheet since (else the empty grid)
  other,       \* the writes other users made to the sheet since the call began
  log,         \* while clean: the values lists of the successful db_add_value
               \* calls since the last db_create, in call order
  ids,         \* the IDs db_add_value assigned since the last db_create
  clean,       \* db_create returned and no call but db_add_value was made since
  rpc,         \* race: each client's position in db_add_value
  rvals,       \* race: each client's values list
  rid          \* race: the ID each client computed

selVars == <<sheets, sheet_name, worksheet, inCtor, setArg>>
argVars == <<cell, target, arg, given>>
localVars == <<value, todo, headers>>
histVars == <<log, ids, clean>>
raceVars == <<rpc, rvals, rid>>
vars == <<selVars, cells, pc, op, result, argVars, localVars, vals, pre, other,
          histVars, raceVars>>

\* ----------------------------------------------- handlers of one remote call
\* Each is a function of the handle and the grid: the grid it leaves (or the
\* value it returns) and the way it ends when the remote call is answered.
Ret(g, res) == [cells |-> g, result |-> res]

get_cell(ws, g, c, blank) ==
  IF ws = None THEN [value |-> None, result |-> NoWorksheet]
  ELSE [value |-> acell_value(g, c, blank), result |-> OK]

update_cell(ws, g, c, v) ==
  IF ws = None THEN Ret(g, NoWorksheet) ELSE Ret(update_acell(g, c, v), OK)

del_cell(ws, g, c) ==
  IF ws = None THEN Ret(g, NoWorksheet) ELSE Ret(update_acell(g, c, ""), OK)

update_range(ws, g, rng, values) ==
  IF ws = None THEN Ret(g, NoWorksheet) ELSE Ret(update(g, rng, values), OK)

del_range(ws, g, rng) ==
  IF ws = None THEN Ret(g, NoWorksheet) ELSE Ret(batch_clear(g, rng), OK)

clear(ws, g) ==
  IF ws = None THEN Ret(g, NoWorksheet) ELSE Ret(ws_clear(g), OK)

db_get_headers(ws, g) ==
  IF ws = None THEN [value |-> <<>>, result |-> NoWorksheet]
  ELSE [value |-> row_values(g, 1), result |-> OK]

db_get_all_values(ws, g) ==
  IF ws = None THEN [value |-> <<>>, result |-> NoWorksheet]
  ELSE LET all_values == ws_get_all_values(g)
       IN [value |-> SubSeq(all_values, 2, Len(all_values)), result |-> OK]

\* ------------------------------------- the local steps of the other handlers
\* Mutant: the duplicate check left out.
check_header_never(header, hs) == OK

\* db_add_header, lines 121-122: `if header in headers: raise ValueError`.
check_header(header, hs) == IF In(header, hs) THEN HeaderExists ELSE OK

\* `if headers:` of db_create (line 140): the names added after "ID".
create_names(isGiven, list) == IF isGiven /\ Len(list) > 0 THEN list ELSE <<>>

\* Mutant: the ID column is not excluded from the count.
check_values_noid(values, hs) == IF Len(values) # Len(hs) THEN ValueCount ELSE OK

\* db_add_value, lines 149-150: `if len(values) != len(headers) - 1: raise`.
check_values(values, hs) == IF Len(values) # Len(hs) - 1 THEN ValueCount ELSE OK

\* Mutant: next_row itself is used as the ID.
next_id_offbyone(all_values) == Len(all_values) + 1

\* `next_row - 1` with next_row = len(get_all_values()) + 1 (lines 152-153).
next_id(all_values) == (Len(all_values) + 1) - 1

\* `values.insert(0, next_row - 1)`: the ID is held as the string the sheet
\* returns for it.
insert_id(values, id) == <<IdStr(id)>> \o values

\* ------------------------------------------------------------------ inputs
CellsIn(R, C) == [r : 1..R, c : 1..C]

RangesIn(R, C) == {rng \in [r1 : 1..R, c1 : 1..C, r2 : 1..R, c2 : 1..C] :
                     rng.r1 <= rng.r2 /\ rng.c1 <= rng.c2}

\* The block of values update_range is called with: as many rows and columns
\* as the range has, every value "x".
Block(rng) == [i \in 1..(rng.r2 - rng.r1 + 1) |-> [j \in 1..(rng.c2 - rng.c1 + 1) |-> "x"]]

NameLists == SeqsOf(HeaderNames, 0, MaxNames)

OptNameLists == {[given |-> FALSE, list |-> <<>>]}
                  \cup {[given |-> TRUE, list |-> l] : l \in NameLists}

ValueLists(C) == SeqsOf(CellValues, 0, C)

\* The part of the sheet a specification explores: R rows, C columns.
Fits(g, R, C) == Len(g) <= R /\ Width(g) <= C

\* --------------------------------------------- one client: the calls it makes
\* A step of the client is one remote call (one blocking round trip) with the
\* local code up to the next one.  Between two steps of a call the sheet's
\* other users may write to it (OtherWrite), and any remote call may fail in
\* transport instead of being answered (RemoteFails, and the second case of
\* Call).

\* A call begins: the client is between calls.
Begin(name) ==
  /\ pc = "idle"
  /\ op' = name
  /\ pre' = cells
  /\ other' = 0
  /\ UNCHANGED <<selVars, raceVars>>

\* The first remote call of a handler is next, unless no worksheet is set.
Enter(label) ==
  IF worksheet = None
  THEN pc' = "idle" /\ result' = NoWorksheet
  ELSE pc' = label /\ result' = Running

\* A handler that makes one remote call: r is how it ends when the call is
\* answered; when the call fails the sheet is as it was and APIError is raised.
Call(name, r) ==
  /\ Begin(name)
  /\ pc' = "idle"
  /\ \/ cells' = r.cells /\ result' = r.result
     \/ r.result = OK /\ cells' = cells /\ result' = ApiError
  /\ arg' = <<>>
  /\ given' = FALSE
  /\ vals' = <<>>
  /\ UNCHANGED <<cell, target, localVars>>

UpdateCell(c, v) == Call("update_cell", update_cell(worksheet, cells, c, v))

DelCell(c) == Call("del_cell", del_cell(worksheet, cells, c))

UpdateRange(rng, values) ==
  Call("update_range", update_range(worksheet, cells, rng, values))

DelRange(rng) == Call("del_range", del_range(worksheet, cells, rng))

Clear == Call("clear", clear(worksheet, cells))

\* ---- move_to (lines 99-102) and copy_to (lines 103-105)
MoveTo(c, t) ==
  /\ Begin("move_to")
  /\ cell' = c
  /\ target' = t
  /\ Enter("move.get_cell")
  /\ arg' = <<>>
  /\ given' = FALSE
  /\ vals' = <<>>
  /\ UNCHANGED <<cells, localVars>>

\* Line 100: `value = self.get_cell(cell)`; blank is what the library gives
\* for an empty cell.
MoveGetCell(blank) ==
  /\ pc = "move.get_cell"
  /\ value' = get_cell(worksheet, cells, cell, blank).value
  /\ pc' = "move.update_cell"
  /\ UNCHANGED <<selVars, cells, op, result, argVars, todo, headers, vals, pre, other, raceVars>>

\* Line 101: `self.update_cell(target_cell, value)`.
MoveUpdateCell ==
  /\ pc = "move.update_cell"
  /\ cells' = update_cell(worksheet, cells, target, value).cells
  /\ pc' = "move.del_cell"
  /\ UNCHANGED <<selVars, op, result, argVars, localVars, vals, pre, other, raceVars>>

\* Line 102: `self.del_cell(cell)`, and move_to returns.
MoveDelCell ==
  /\ pc = "move.del_cell"
  /\ cells' = del_cell(worksheet, cells, cell).cells
  /\ pc' = "idle"
  /\ result' = OK
  /\ value' = None
  /\ UNCHANGED <<selVars, op, argVars, todo, headers, vals, pre, other, raceVars>>

CopyTo(c, t) ==
  /\ Begin("copy_to")
  /\ cell' = c
  /\ target' = t
  /\ Enter("copy.get_cell")
  /\ arg' = <<>>
  /\ given' = FALSE
  /\ vals' = <<>>
  /\ UNCHANGED <<cells, localVars>>

\* Line 104: `value = self.get_cell(cell)`.
CopyGetCell(blank) ==
  /\ pc = "copy.get_cell"
  /\ value' = get_cell(worksheet, cells, cell, blank).value
  /\ pc' = "copy.update_cell"
  /\ UNCHANGED <<selVars, cells, op, result, argVars, todo, headers, vals, pre, other, raceVars>>

\* Line 105: `self.update_cell(target_cell, value)`, and copy_to returns.
CopyUpdateCell ==
  /\ pc = "copy.update_cell"
  /\ cells' = update_cell(worksheet, cells, target, value).cells
  /\ pc' = "idle"
  /\ result' = OK
  /\ value' = None
  /\ UNCHANGED <<selVars, op, argVars, todo, headers, vals, pre, other, raceVars>>

\* ---- db_add_header (lines 117-125), db_add_headers (126-132), db_create (133-142)
\* `todo` holds the names the running call has still to pass to db_add_header.
DbAddHeader(header) ==
  /\ Begin("db_add_header")
  /\ arg' = <<header>>
  /\ given' = TRUE
  /\ todo' = IF worksheet = None THEN <<>> ELSE <<header>>
  /\ Enter("header.read")
  /\ vals' = <<>>
  /\ UNCHANGED <<cells, cell, target, value, headers>>

\* Lines 128-132: with no names the loop makes no call.
DbAddHeaders(names) ==
  /\ Begin("db_add_headers")
  /\ arg' = names
  /\ given' = TRUE
  /\ todo' = IF worksheet = None THEN <<>> ELSE names
  /\ IF Len(names) = 0 /\ worksheet # None
     THEN pc' = "idle" /\ result' = OK
     ELSE Enter("header.read")
  /\ vals' = <<>>
  /\ UNCHANGED <<cells, cell, target, value, headers>>

DbCreate(hs) ==
  /\ Begin("db_create")
  /\ arg' = hs.list
  /\ given' = hs.given
  /\ Enter("create.clear")
  /\ vals' = <<>>
  /\ UNCHANGED <<cells, cell, target, localVars>>

\* Mutant: the sheet is not cleared first.
CreateClear_noclear ==
  /\ pc = "create.clear"
  /\ todo' = <<"ID">> \o create_names(given, arg)
  /\ pc' = "header.read"
  /\ UNCHANGED <<selVars, cells, op, result, argVars, value, headers, vals, pre, other, raceVars>>

\* Line 138: `self.clear()`; then "ID" and the names given are to be added
\* (lines 139-142).
CreateClear ==
  /\ pc = "create.clear"
  /\ cells' = clear(worksheet, cells).cells
  /\ todo' = <<"ID">> \o create_names(given, arg)
  /\ pc' = "header.read"
  /\ UNCHANGED <<selVars, op, result, argVars, value, headers, vals, pre, other, raceVars>>

\* Mutant: a name that is already present is skipped and the loop goes on.
HeaderRead_continue ==
  /\ pc = "header.read"
  /\ LET hs == db_get_headers(worksheet, cells).value
     IN IF check_header(todo[1], hs) # OK
        THEN /\ todo' = Tail(todo)
             /\ headers' = <<>>
             /\ IF Len(todo) = 1 THEN pc' = "idle" /\ result' = OK
                ELSE pc' = "header.read" /\ result' = result
        ELSE /\ headers' = Append(hs, todo[1])
             /\ pc' = "header.write"
             /\ UNCHANGED <<result, todo>>
  /\ UNCHANGED <<selVars, cells, op, argVars, value, vals, pre, other, raceVars>>

\* db_add_header, lines 120-124: the header row is read; a name already in
\* it raises (and ends the caller's loop with it), else it is appended to the
\* list read.
HeaderRead ==
  /\ pc = "header.read"
  /\ LET hs == db_get_headers(worksheet, cells).value
         res == check_header(todo[1], hs)
     IN IF res # OK
        THEN /\ pc' = "idle"
             /\ result' = res
             /\ todo' = <<>>
             /\ headers' = <<>>
        ELSE /\ headers' = Append(hs, todo[1])
             /\ pc' = "header.write"
             /\ UNCHANGED <<result, todo>>
  /\ UNCHANGED <<selVars, cells, op, argVars, value, vals, pre, other, raceVars>>

\* db_add_header, line 125: `self._worksheet.update('A1', [headers])`; then
\* the caller's next name, or the return.
HeaderWrite ==
  /\ pc = "header.write"
  /\ cells' = update(cells, A1, <<headers>>)
  /\ headers' = <<>>
  /\ todo' = Tail(todo)
  /\ IF Len(todo) = 1
     THEN pc' = "idle" /\ result' = OK
     ELSE pc' = "header.read" /\ result' = result
  /\ UNCHANGED <<selVars, op, argVars, value, vals, pre, other, raceVars>>

\* ---- db_add_value (lines 143-154)
DbAddValue(values) ==
  /\ Begin("db_add_value")
  /\ arg' = values
  /\ given' = TRUE
  /\ vals' = values
  /\ Enter("value.headers")
  /\ UNCHANGED <<cells, cell, target, localVars>>

\* Lines 148-150: the headers are read and the length is checked.
AddValueHeaders ==
  /\ pc = "value.headers"
  /\ LET res == check_values(vals, db_get_headers(worksheet, cells).value)
     IN IF res # OK
        THEN pc' = "idle" /\ result' = res
        ELSE pc' = "value.count" /\ result' = result
  /\ UNCHANGED <<selVars, cells, op, argVars, localVars, vals, pre, other, raceVars>>

\* Lines 152-153: the rows are read and the ID is put before the values.
AddValueCount ==
  /\ pc = "value.count"
  /\ vals' = insert_id(vals, next_id(ws_get_all_values(cells)))
  /\ pc' = "value.append"
  /\ UNCHANGED <<selVars, cells, op, result, argVars, localVars, pre, other, raceVars>>

\* Line 154: `self._worksheet.append_row(values)`, and db_add_value returns.
AddValueAppend ==
  /\ pc = "value.append"
  /\ cells' = append_row(cells, vals)
  /\ pc' = "idle"
  /\ result' = OK
  /\ UNCHANGED <<selVars, op, argVars, localVars, vals, pre, other, raceVars>>

\* ---- the environment
\* The positions at which the client's next step is a remote call.
RemoteCalls == {"move.get_cell", "move.update_cell", "move.del_cell",
                "copy.get_cell", "copy.update_cell",
                "create.clear", "header.read", "header.write",
                "value.headers", "value.count", "value.append"}

\* The remote call the client is about to make fails in transport: the sheet
\* is as it was and APIError propagates out of the handler.
RemoteFails ==
  /\ pc \in RemoteCalls
  /\ pc' = "idle"
  /\ result' = ApiError
  /\ value' = None
  /\ todo' = <<>>
  /\ headers' = <<>>
  /\ UNCHANGED <<selVars, cells, op, argVars, vals, pre, other, raceVars>>

\* The client is between two remote calls of one call: it has made the first
\* and has another to make.
Between ==
  /\ pc \in RemoteCalls \ {"move.get_cell", "copy.get_cell", "create.clear", "value.headers"}
  /\ pc = "header.read" => (op = "db_create" \/ todo # arg)

\* Another user (or another client) of the workbook writes the cell c between
\* two remote calls of the client's call.
OtherWrite(c, v) ==
  /\ Between
  /\ other < MaxOther
  /\ cells' = update_acell(cells, c, v)
  /\ cells' # cells
  /\ other' = other + 1
  /\ pre' = <<>>
  /\ UNCHANGED <<selVars, pc, op, result, argVars, localVars, vals, raceVars>>

\* The state after GoogleSheetsManager(creds, id) on a workbook whose only
\* worksheet is S1, empty.
Constructed ==
  /\ sheets = <<"S1">>
  /\ sheet_name = "S1"
  /\ worksheet = "S1"
  /\ inCtor = FALSE
  /\ setArg = None
  /\ cells = <<>>
  /\ pc = "idle"
  /\ op = "__init__"
  /\ result = OK
  /\ cell = NoCell
  /\ target = NoCell
  /\ arg = <<>>
  /\ given = FALSE
  /\ value = None
  /\ todo = <<>>
  /\ headers = <<>>
  /\ vals = <<>>
  /\ pre = <<>>
  /\ other = 0
  /\ log = <<>>
  /\ ids = {}
  /\ clean = FALSE
  /\ rpc = <<>>
  /\ rvals = <<>>
  /\ rid = <<>>

\* What db_get_headers() and db_get_all_values() return now, and what
\* db_get_headers() returned when the last call began.
Headers == db_get_headers(worksheet, cells).value
DataRows == db_get_all_values(worksheet, cells).value
PreHeaders == db_get_headers(worksheet, pre).value

\* The call `name` has ended, every remote call it made was answered, and no
\* one else has written to the sheet since it began.
Done(name) == pc = "idle" /\ op = name /\ result # ApiError /\ other = 0

Unique(xs) == \A i, j \in 1..Len(xs) : xs[i] = xs[j] => i = j

\* ----------------------------------------------- Spec: the database layout
\* One client and the sheet's other users; the header row, db_create and
\* db_add_value, with del_cell and clear.
Init == Constructed

InHdr(A) == A /\ Fits(cells', HdrRows, HdrCols) /\ UNCHANGED histVars

Next ==
  \/ \E c \in CellsIn(HdrRows, HdrCols) : InHdr(DelCell(c))
  \/ InHdr(Clear)
  \/ \E header \in HeaderNames : InHdr(DbAddHeader(header))
  \/ \E names \in NameLists : InHdr(DbAddHeaders(names))
  \/ \E hs \in OptNameLists : InHdr(DbCreate(hs))
  \/ \E values \in ValueLists(HdrCols - 1) : InHdr(DbAddValue(values))
  \/ InHdr(CreateClear)
  \/ InHdr(HeaderRead)
  \/ InHdr(HeaderWrite)
  \/ InHdr(AddValueHeaders)
  \/ InHdr(AddValueCount)
  \/ InHdr(AddValueAppend)
  \/ InHdr(RemoteFails)
  \/ \E c \in CellsIn(HdrRows, HdrCols) : InHdr(OtherWrite(c, "x"))

Spec == Init /\ [][Next]_vars

\* C3 as stated, for a call whose remote calls are answered and that no other
\* writer interleaves with: with a header row H of unique names,
\* db_add_header(h) for any string h not in H succeeds and the headers read
\* afterwards are H followed by h; for h in H it raises the duplicate-header
\* ValueError and the headers read afterwards are H.
C3_AnyString ==
  (Done("db_add_header") /\ Unique(PreHeaders)) =>
    IF In(arg[1], PreHeaders)
    THEN result = HeaderExists /\ Headers = PreHeaders
    ELSE result = OK /\ Headers = Append(PreHeaders, arg[1])

\* C3 amended: the same for every h that is not the empty string when h is
\* not in H (an empty name is written as an empty last cell, which the header
\* row read back does not include); for h in H, every h.
C3_AddHeader ==
  (Done("db_add_header") /\ Unique(PreHeaders)) =>
    IF In(arg[1], PreHeaders)
    THEN result = HeaderExists /\ Headers = PreHeaders
    ELSE /\ result = OK
         /\ arg[1] # "" => Headers = Append(PreHeaders, arg[1])

\* db_add_header("b") has returned on the header row ["ID", "a"].
C3_Witness ==
  /\ Done("db_add_header")
  /\ result = OK
  /\ PreHeaders = <<"ID", "a">>
  /\ Headers = <<"ID", "a", "b">>

\* C4: when db_create returns or raises the duplicate-header ValueError (its
\* remote calls answered, no other writer in between), the header row starts
\* with "ID" and the table has no data rows, whatever the sheet held and
\* whatever the headers argument; with None or [] the header row is ["ID"].
C4_Create ==
  Done("db_create") =>
    /\ result \in {OK, HeaderExists}
    /\ Len(Headers) >= 1
    /\ Headers[1] = "ID"
    /\ DataRows = <<>>
    /\ create_names(given, arg) = <<>> => (result = OK /\ Headers = <<"ID">>)

\* db_create(["a", "a"]) has raised on the second "a", on a sheet that held
\* a data row.
C4_Witness ==
  /\ Done("db_create")
  /\ result = HeaderExists
  /\ arg = <<"a", "a">>
  /\ Len(pre) = 2
  /\ cells = <<(<<"ID", "a">>)>>

\* C8: db_add_value(values) with len(values) # len(headers) - 1 raises the
\* value-count ValueError, the sheet is as it was and the caller's list is
\* as it was passed.
C8_Mismatch ==
  (Done("db_add_value") /\ Len(arg) # Len(PreHeaders) - 1) =>
    /\ result = ValueCount
    /\ cells = pre
    /\ vals = arg

\* A mismatching db_add_value on a sheet with a header row and a data row.
C8_Witness ==
  /\ Done("db_add_value")
  /\ result = ValueCount
  /\ Len(cells) = 2
  /\ Len(Headers) = 2
  /\ Len(arg) = 2

\* The first k with names[k] already in the header row H or among names[1..k-1];
\* 0 when there is none.
FirstPresent(H, names) ==
  LET ks == {k \in 1..Len(names) : In(names[k], H \o SubSeq(names, 1, k - 1))}
  IN IF ks = {} THEN 0 ELSE CHOOSE k \in ks : \A m \in ks : k <= m

\* C10 as stated, for a call whose remote calls are answered and that no
\* other writer interleaves with: db_add_headers(names) adds the names in
\* order up to the first one already present (in the header row or earlier in
\* the list), where it raises; the names before it stay appended, none after
\* it is added.
C10_AnyNames ==
  Done("db_add_headers") =>
    LET k == FirstPresent(PreHeaders, arg)
    IN IF k = 0
       THEN result = OK /\ Headers = PreHeaders \o arg
       ELSE /\ result = HeaderExists
            /\ Headers = PreHeaders \o SubSeq(arg, 1, k - 1)

\* C10 amended: the same for lists of names none of which is the empty string.
C10_AddHeaders ==
  (Done("db_add_headers") /\ ~In("", arg)) =>
    LET k == FirstPresent(PreHeaders, arg)
    IN IF k = 0
       THEN result = OK /\ Headers = PreHeaders \o arg
       ELSE /\ result = HeaderExists
            /\ Headers = PreHeaders \o SubSeq(arg, 1, k - 1)

\* db_add_headers(["a", "ID"]) has raised on "ID", on the header row ["ID"].
C10_Witness ==
  /\ Done("db_add_headers")
  /\ result = HeaderExists
  /\ arg = <<"a", "ID">>
  /\ PreHeaders = <<"ID">>
  /\ Headers = <<"ID", "a">>

\* ------------------------------------------------- SpecIds: the row IDs
\* One client and no other writer; db_create, db_add_value and the cell and
\* range writes, with the record of the db_add_value calls that succeeded
\* since the last db_create returned.
InIds(A) ==
  /\ A
  /\ Fits(cells', IdRows, IdCols)
  /\ clean' = IF op' = "db_add_value" THEN clean
              ELSE op' = "db_create" /\ pc' = "idle" /\ result' = OK
  /\ log' = IF op' # "db_add_value" THEN <<>>
            ELSE IF clean /\ pc = "value.append" /\ result' = OK
                 THEN Append(log, arg) ELSE log
  /\ ids' = IF op' = "db_create" THEN {}
            ELSE IF pc = "value.append" /\ result' = OK
                 THEN ids \cup {Head(vals)} ELSE ids

\* The headers arguments whose header row ("ID" and the names) fits the columns.
IdHeaders == {hs \in OptNameLists : Len(hs.list) < IdCols}

NextIds ==
  \/ \E hs \in IdHeaders : InIds(DbCreate(hs))
  \/ InIds(CreateClear)
  \/ InIds(HeaderRead)
  \/ InIds(HeaderWrite)
  \/ \E values \in ValueLists(IdCols) : InIds(DbAddValue(values))
  \/ InIds(AddValueHeaders)
  \/ InIds(AddValueCount)
  \/ InIds(AddValueAppend)
  \/ InIds(RemoteFails)
  \/ \E c \in CellsIn(IdRows, IdCols) : InIds(UpdateCell(c, "x"))
  \/ \E c \in CellsIn(IdRows, IdCols) : InIds(DelCell(c))
  \/ \E rng \in RangesIn(IdRows, IdCols) : InIds(UpdateRange(rng, Block(rng)))
  \/ \E rng \in RangesIn(IdRows, IdCols) : InIds(DelRange(rng))

SpecIds == Init /\ [][NextIds]_vars

\* C5: after db_create has returned, while db_add_value is the only call
\* made, the data rows are the rows of the successful calls in call order, the
\* k-th being the ID k followed by the values passed to the k-th call.
C5_Sequential ==
  clean => DataRows = [k \in 1..Len(log) |-> <<IdStr(k)>> \o log[k]]

\* db_create(["a"]), then db_add_value(["x"]) and db_add_value([""]).
C5_Witness ==
  /\ clean
  /\ Done("db_add_value")
  /\ result = OK
  /\ log = <<(<<"x">>), (<<"">>)>>
  /\ Headers = <<"ID", "a">>

\* C6 as stated: no db_add_value assigns an ID that an earlier db_add_value
\* (since the db_create) assigned, whatever del_cell, del_range, update_cell
\* and update_range calls come between.
C6_NeverReused ==
  [][(pc = "value.append" /\ result' = OK) => Head(vals) \notin ids]_vars

\* -------------------------------------------------- SpecMove: moving cells
\* One client and the sheet's other users; update_cell, update_range on one
\* cell, del_cell, move_to and copy_to on a small sheet.
OneCell(c) == [r1 |-> c.r, c1 |-> c.c, r2 |-> c.r, c2 |-> c.c]

InMove(A) == A /\ Fits(cells', MoveRows, MoveCols) /\ UNCHANGED histVars

NextMove ==
  \/ \E c \in CellsIn(MoveRows, MoveCols), v \in MoveValues : InMove(UpdateCell(c, v))
  \/ \E c \in CellsIn(MoveRows, MoveCols), v \in MoveValues :
       InMove(UpdateRange(OneCell(c), <<(<<v>>)>>))
  \/ \E c \in CellsIn(MoveRows, MoveCols) : InMove(DelCell(c))
  \/ \E c \in CellsIn(MoveRows, MoveCols), t \in CellsIn(MoveRows, MoveCols) :
       InMove(MoveTo(c, t))
  \/ \E blank \in EmptyReads : InMove(MoveGetCell(blank))
  \/ InMove(MoveUpdateCell)
  \/ InMove(MoveDelCell)
  \/ \E c \in CellsIn(MoveRows, MoveCols), t \in CellsIn(MoveRows, MoveCols) :
       InMove(CopyTo(c, t))
  \/ \E blank \in EmptyReads : InMove(CopyGetCell(blank))
  \/ InMove(CopyUpdateCell)
  \/ InMove(RemoteFails)
  \/ \E c \in CellsIn(MoveRows, MoveCols), v \in MoveValues \cup {""} :
       InMove(OtherWrite(c, v))

SpecMove == Init /\ [][NextMove]_vars

\* The target holds what the source held when the call began, the source is
\* empty, every other cell is as it was.
Moved ==
  \A c \in CellsIn(MoveRows, MoveCols) :
    CellAt(cells, c.r, c.c) =
      IF c = target THEN CellAt(pre, cell.r, cell.c)
      ELSE IF c = cell THEN ""
      ELSE CellAt(pre, c.r, c.c)

\* C9 as stated, for a call no other writer interleaves with: for distinct
\* cells a and b, whatever a holds (the empty string included), a move_to(a, b)
\* whose three remote calls succeed ends with b holding it, a empty and
\* every other cell unchanged.
C9_AnyValue ==
  (Done("move_to") /\ result = OK /\ cell # target) => Moved

\* ------------------------------------ SpecRace: two clients, db_add_value
\* Two clients on the same worksheet, each a sequence of db_add_value calls;
\* a step is one client's next remote call.  Client 1 passes "x", client 2 "y".
\* After a step, result is where the stepping client's call stands: Running
\* while it has remote calls left, its outcome once it has ended.
Clients == {1, 2}

ClientValue(c) == IF c = 1 THEN "x" ELSE "y"

InProgress == Cardinality({c \in Clients : rpc[c] # "idle"})

\* The sheet after db_create(["v"]) on the constructed client.
InitRace ==
  /\ sheets = <<"S1">>
  /\ sheet_name = "S1"
  /\ worksheet = "S1"
  /\ inCtor = FALSE
  /\ setArg = None
  /\ cells = <<(<<"ID", "v">>)>>
  /\ pc = "idle"
  /\ op = "db_create"
  /\ result = OK
  /\ cell = NoCell
  /\ target = NoCell
  /\ arg = <<"v">>
  /\ given = TRUE
  /\ value = None
  /\ todo = <<>>
  /\ headers = <<>>
  /\ vals = <<>>
  /\ pre = <<>>
  /\ other = 0
  /\ log = <<>>
  /\ ids = {}
  /\ clean = FALSE
  /\ rpc = [c \in Clients |-> "idle"]
  /\ rvals = [c \in Clients |-> <<>>]
  /\ rid = [c \in Clients |-> 0]

clientVars == <<pc, argVars, localVars, vals, pre, other>>

\* Client c calls db_add_value(values).
RaceBegin(c, values) ==
  /\ rpc[c] = "idle"
  /\ Len(cells) + InProgress < RaceRows
  /\ rpc' = [rpc EXCEPT ![c] = "value.headers"]
  /\ rvals' = [rvals EXCEPT ![c] = values]
  /\ rid' = [rid EXCEPT ![c] = 0]
  /\ op' = "db_add_value"
  /\ result' = Running
  /\ UNCHANGED <<selVars, cells, clientVars, histVars>>

\* Lines 148-150: the headers are read and the length is checked.
RaceHeaders(c) ==
  /\ rpc[c] = "value.headers"
  /\ LET res == check_values(rvals[c], db_get_headers(worksheet, cells).value)
     IN IF res # OK
        THEN rpc' = [rpc EXCEPT ![c] = "idle"] /\ result' = res
        ELSE rpc' = [rpc EXCEPT ![c] = "value.count"] /\ result' = Running
  /\ UNCHANGED <<selVars, cells, op, clientVars, histVars, rvals, rid>>

\* Lines 152-153: the rows are read and the ID is put before the values.
RaceCount(c) ==
  /\ rpc[c] = "value.count"
  /\ rid' = [rid EXCEPT ![c] = next_id(ws_get_all_values(cells))]
  /\ rvals' = [rvals EXCEPT ![c] = insert_id(rvals[c], rid'[c])]
  /\ rpc' = [rpc EXCEPT ![c] = "value.append"]
  /\ result' = Running
  /\ UNCHANGED <<selVars, cells, op, clientVars, histVars>>

\* Mutant: the row is written at the row number computed, not appended.
RaceAppend_atrow(c) ==
  /\ rpc[c] = "value.append"
  /\ cells' = WriteRow(cells, rid[c] + 1, 1, rvals[c])
  /\ rpc' = [rpc EXCEPT ![c] = "idle"]
  /\ result' = OK
  /\ UNCHANGED <<selVars, op, clientVars, histVars, rvals, rid>>

\* Line 154: the row is appended.
RaceAppend(c) ==
  /\ rpc[c] = "value.append"
  /\ cells' = append_row(cells, rvals[c])
  /\ rpc' = [rpc EXCEPT ![c] = "idle"]
  /\ result' = OK
  /\ UNCHANGED <<selVars, op, clientVars, histVars, rvals, rid>>

\* The remote call client c is about to make fails: its call ends with
\* APIError, no ID assigned.
RaceFails(c) ==
  /\ rpc[c] # "idle"
  /\ rpc' = [rpc EXCEPT ![c] = "idle"]
  /\ rid' = [rid EXCEPT ![c] = 0]
  /\ result' = ApiError
  /\ UNCHANGED <<selVars, cells, op, clientVars, histVars, rvals>>

NextRace ==
  \/ \E c \in Clients : \E values \in {<<>>, <<ClientValue(c)>>} : RaceBegin(c, values)
  \/ \E c \in Clients : RaceHeaders(c)
  \/ \E c \in Clients : RaceCount(c)
  \/ \E c \in Clients : RaceAppend(c)
  \/ \E c \in Clients : RaceFails(c)

SpecRace == InitRace /\ [][NextRace]_vars

\* The rows of the sheet whose first cell is the ID n.
RowsWithId(n) == {i \in 2..Len(cells) : CellAt(cells, i, 1) = IdStr(n)}

\* C7: when the two clients' db_add_value calls have read the same row count
\* (computed the same ID) and both have appended, the sheet holds two data
\* rows with that ID; the witness is a state reached by two such races, the
\* first appended in the order client 1, client 2 and the second in the order
\* client 2, client 1.
C7_DuplicateIds ==
  (/\ rpc[1] = "idle" /\ rpc[2] = "idle"
   /\ rid[1] # 0 /\ rid[1] = rid[2])
  => Cardinality(RowsWithId(rid[1])) >= 2

C7_Witness ==
  /\ rpc[1] = "idle" /\ rpc[2] = "idle"
  /\ rid[1] = 3 /\ rid[2] = 3
  /\ cells = <<(<<"ID", "v">>), (<<"1", "x">>), (<<"1", "y">>),
               (<<"3", "y">>), (<<"3", "x">>)>>

\* ------------------------------------------- SpecSheet: the selected sheet
\* One client from the start of __init__ on, and the workbook's other users,
\* who add and delete worksheets; a step of the client is one remote call.
Workbooks == {w \in SeqsOf(SheetNames, 1, MaxSheets) : Unique(w)}

Without(w, s) == SelectSeq(w, LAMBDA t : t # s)

\* spreadsheet.worksheet(name): the worksheet of that title, or WorksheetNotFound.
ws_lookup(w, name) ==
  IF In(name, w) THEN [found |-> TRUE, title |-> name]
  ELSE [found |-> FALSE, title |-> None]

\* spreadsheet.sheet1: the first worksheet of the listing.
sheet1(w) == [found |-> TRUE, title |-> w[1]]

get_sheet(ws) ==
  IF ws = None THEN [value |-> None, result |-> NoWorksheet] ELSE [value |-> ws, result |-> OK]

get_sheet_name(name) ==
  IF name = None THEN [value |-> None, result |-> NoSheetName]
  ELSE [value |-> name, result |-> OK]

\* The state at line 19 of __init__: both fields None, the workbook not yet opened.
InitSheet ==
  /\ sheets \in Workbooks
  /\ sheet_name = None
  /\ worksheet = None
  /\ inCtor = FALSE
  /\ setArg = None
  /\ cells = <<>>
  /\ pc = "init"
  /\ op = "__init__"
  /\ result = Running
  /\ cell = NoCell
  /\ target = NoCell
  /\ arg = <<>>
  /\ given = FALSE
  /\ value = None
  /\ todo = <<>>
  /\ headers = <<>>
  /\ vals = <<>>
  /\ pre = <<>>
  /\ other = 0
  /\ log = <<>>
  /\ ids = {}
  /\ clean = FALSE
  /\ rpc = <<>>
  /\ rvals = <<>>
  /\ rid = <<>>

restVars == <<cells, argVars, localVars, vals, pre, other, histVars, raceVars>>

\* Mutant: the name is recorded before the lookup is known to succeed.
SetSheetTitle_eager(name, ctor) ==
  LET w == ws_lookup(sheets, name)
  IN /\ op' = "set_sheet"
     /\ setArg' = name
     /\ inCtor' = ctor
     /\ sheet_name' = name
     /\ IF w.found
        THEN pc' = "set2" /\ result' = Running
        ELSE pc' = (IF ctor THEN "failed" ELSE "idle") /\ result' = SheetNotFound
     /\ UNCHANGED <<sheets, worksheet, restVars>>

\* Line 43: `self.sheet_name = self.spreadsheet.worksheet(sheet_name).title`,
\* the lookup answered.  A lookup that finds no such worksheet ends set_sheet
\* with the ValueError (and __init__ with it).
SetSheetTitle(name, ctor) ==
  LET w == ws_lookup(sheets, name)
  IN /\ op' = "set_sheet"
     /\ setArg' = name
     /\ inCtor' = ctor
     /\ IF w.found
        THEN /\ sheet_name' = w.title
             /\ pc' = "set2"
             /\ result' = Running
        ELSE /\ sheet_name' = sheet_name
             /\ pc' = IF ctor THEN "failed" ELSE "idle"
             /\ result' = SheetNotFound
     /\ UNCHANGED <<sheets, worksheet, restVars>>

\* Line 44: `self._worksheet = self.spreadsheet.worksheet(sheet_name)`.
SetSheetHandle ==
  LET w == ws_lookup(sheets, setArg)
  IN /\ pc = "set2"
     /\ IF w.found
        THEN /\ worksheet' = w.title
             /\ pc' = "idle"
             /\ result' = OK
        ELSE /\ worksheet' = worksheet
             /\ pc' = IF inCtor THEN "failed" ELSE "idle"
             /\ result' = SheetNotFound
     /\ UNCHANGED <<sheets, sheet_name, inCtor, setArg, op, restVars>>

\* set_sheet(name), called by the user.
SetSheet(name) == pc = "idle" /\ SetSheetTitle(name, FALSE)

\* set_sheet(name) whose first lookup fails in transport.
SetSheetFails(name) ==
  /\ pc = "idle"
  /\ op' = "set_sheet"
  /\ setArg' = name
  /\ inCtor' = FALSE
  /\ result' = ApiError
  /\ UNCHANGED <<sheets, sheet_name, worksheet, pc, restVars>>

\* __init__ with a sheet name: lines 24-25.
InitNamed(sheet) == pc = "init" /\ SetSheetTitle(sheet, TRUE)

\* __init__ without one: line 27, `self._worksheet = self.spreadsheet.sheet1`.
InitDefault ==
  /\ pc = "init"
  /\ worksheet' = sheet1(sheets).title
  /\ pc' = "ctor2"
  /\ UNCHANGED <<sheets, sheet_name, inCtor, setArg, op, result, restVars>>

\* Line 28: `self.sheet_name = self.spreadsheet.sheet1.title`.
InitDefaultTitle ==
  /\ pc = "ctor2"
  /\ sheet_name' = sheet1(sheets).title
  /\ pc' = "idle"
  /\ result' = OK
  /\ UNCHANGED <<sheets, worksheet, inCtor, setArg, op, restVars>>

\* Lines 32-35: __init__ catches an APIError of its try block; when the
\* error's text, lowercased, holds "disabled" it raises PermissionError in its
\* place, otherwise it raises the APIError again.  Outside __init__ nothing
\* catches the APIError.
api_error(inInit, disabled) ==
  IF inInit /\ disabled THEN ApiDisabled ELSE ApiError

\* A remote call of __init__ (lines 23-28, set_sheet's lookups included) or
\* the second lookup of a set_sheet the user called fails with an APIError;
\* disabled tells whether its text holds "disabled".
LookupFails(disabled) ==
  /\ pc \in {"init", "ctor2", "set2"}
  /\ LET inInit == ~(pc = "set2" /\ ~inCtor)
     IN /\ pc' = IF inInit THEN "failed" ELSE "idle"
        /\ result' = api_error(inInit, disabled)
  /\ UNCHANGED <<sheets, sheet_name, worksheet, inCtor, setArg, op, restVars>>

\* Lines 21-23 fail before any worksheet is looked up: the credentials file
\* is missing (lines 30-31) or the ID names no spreadsheet (lines 36-37).
InitRaises(err) ==
  /\ pc = "init"
  /\ pc' = "failed"
  /\ result' = err
  /\ UNCHANGED <<sheets, sheet_name, worksheet, inCtor, setArg, op, restVars>>

\* Another user deletes a worksheet (a workbook keeps at least one).
OutOfBandDelete(s) ==
  /\ In(s, sheets)
  /\ Len(sheets) > 1
  /\ sheets' = Without(sheets, s)
  /\ UNCHANGED <<sheet_name, worksheet, pc, inCtor, setArg, op, result, restVars>>

\* Another user adds a worksheet.
OutOfBandAdd(s) ==
  /\ ~In(s, sheets)
  /\ Len(sheets) < MaxSheets
  /\ sheets' = Append(sheets, s)
  /\ UNCHANGED <<sheet_name, worksheet, pc, inCtor, setArg, op, result, restVars>>

NextSheet ==
  \/ \E sheet \in SheetNames : InitNamed(sheet)
  \/ InitDefault
  \/ InitDefaultTitle
  \/ \E name \in SheetNames : SetSheet(name)
  \/ \E name \in SheetNames : SetSheetFails(name)
  \/ SetSheetHandle
  \/ \E disabled \in BOOLEAN : LookupFails(disabled)
  \/ \E err \in {CredentialsNotFound, SpreadsheetNotFound} : InitRaises(err)
  \/ \E s \in SheetNames : OutOfBandDelete(s)
  \/ \E s \in SheetNames : OutOfBandAdd(s)

SpecSheet == InitSheet /\ [][NextSheet]_vars

\* The name and the handle are both unset, or both set and of the same worksheet.
Selected ==
  \/ sheet_name = None /\ worksheet = None
  \/ sheet_name # None /\ worksheet # None /\ worksheet = sheet_name

\* C1 as stated, taken at the states between the client's calls (the object
\* constructed, no set_sheet in progress): the recorded name and the handle
\* are both unset or of the same worksheet.
C1_Selected == pc = "idle" => Selected

\* C2: set_sheet(t) on a constructed client, t not a worksheet of the
\* workbook when the lookup is answered, raises the sheet-not-found ValueError
\* and leaves the handle and the name, and so what get_sheet() and
\* get_sheet_name() return, as they were; a lookup that fails in transport
\* leaves them as they were too.
C2_NotFound ==
  [][op' = "set_sheet" => \A t \in SheetNames :
       /\ (SetSheet(t) /\ ~In(t, sheets)) =>
            /\ result' = SheetNotFound
            /\ pc' = "idle"
            /\ worksheet' = worksheet
            /\ sheet_name' = sheet_name
            /\ get_sheet(worksheet') = get_sheet(worksheet)
            /\ get_sheet_name(sheet_name') = get_sheet_name(sheet_name)
       /\ SetSheetFails(t) =>
            /\ get_sheet(worksheet') = get_sheet(worksheet)
            /\ get_sheet_name(sheet_name') = get_sheet_name(sheet_name)]_vars

\* set_sheet("S3") has raised on a client that has S1 selected.
C2_Witness ==
  /\ op = "set_sheet"
  /\ result = SheetNotFound
  /\ pc = "idle"
  /\ setArg = "S3"
  /\ ~In("S3", sheets)
  /\ sheet_name = "S1"
  /\ worksheet = "S1"
====
